---------------------------- MODULE Spec2Model ----------------------------
(***************************************************************************)
(* Skill Match & Fit Scoring Engine of the resume/job-description backend. *)
(*                                                                         *)
(*   backend/app/job_analysis.py  generate_demo_skill_match,               *)
(*                                analyze_skill_match                      *)
(*   backend/app/main.py          generate_recommendations, and the        *)
(*                                /analyze-skills handler that calls both  *)
(*                                                                         *)
(* A skill string is a sequence of one-character strings, so that          *)
(* str.lower(), str.strip() and the substring test `a in b` are computed   *)
(* character by character.  Python's None is the value Null.               *)
(*                                                                         *)
(* Percentages are exact rationals [n, d] while they are computed; the     *)
(* values round(x, 1) stores in a report are integers counting tenths of a *)
(* percent (50.0 is 500).  Python computes them in binary floating point;  *)
(* the model computes the real-number value of every expression.           *)
(***************************************************************************)
EXTENDS Integers, Sequences, FiniteSets, TLC

(***************************************************************************)
(* Bounds of the model.                                                    *)
(***************************************************************************)
\* Largest number of entries of the three input lists together, for the
\* lists enumerated over Vocabulary.
MaxEntries == 3
\* Lengths of the required and preferred lists of the long inputs.
ScaleRequired == 17
ScalePreferred == 13
\* Number of /chat requests of one session that can be in progress together,
\* and the largest number of rows of the session, stored or about to be.
NumRequests == 2
MaxStored == 6
\* Number of job descriptions that are uploaded.
NumAnalyses == 2
\* Largest number of words of a job text.
MaxWords == 2

(***************************************************************************)
(* Strings.                                                                *)
(***************************************************************************)
Null == <<"None">>

UpperCase == <<"A","B","C","D","E","F","G","H","I","J","K","L","M",
               "N","O","P","Q","R","S","T","U","V","W","X","Y","Z">>
LowerCase == <<"a","b","c","d","e","f","g","h","i","j","k","l","m",
               "n","o","p","q","r","s","t","u","v","w","x","y","z">>

LowerMap ==
    [c \in {UpperCase[i] : i \in 1..Len(UpperCase)} |->
        LowerCase[CHOOSE i \in 1..Len(UpperCase) : UpperCase[i] = c]]

LowerChar(c) == IF c \in DOMAIN LowerMap THEN LowerMap[c] ELSE c

\* str.lower()
lower(s) == [i \in 1..Len(s) |-> LowerChar(s[i])]

IsSpace(c) == c \in {" ", "\t", "\n"}

\* str.strip()
strip(s) ==
    LET keep == {i \in 1..Len(s) : ~IsSpace(s[i])}
    IN  IF keep = {} THEN <<>>
        ELSE SubSeq(s, CHOOSE i \in keep : \A j \in keep : i <= j,
                       CHOOSE i \in keep : \A j \in keep : i >= j)

\* the substring test  a in b
In(a, b) ==
    \E i \in 0..(Len(b) - Len(a)) : SubSeq(b, i + 1, i + Len(a)) = a

\* truth value of a list entry:  None and "" are falsy
Truthy(skill) == skill # Null /\ skill # <<>>

(***************************************************************************)
(* Percentages: exact rationals, and round(x, 1).                          *)
(***************************************************************************)
Rat(n, d) == [n |-> n, d |-> d]

\* q >= k  and  q < k  for a rational q and an integer k
AtLeast(q, k) == q.n >= k * q.d
Below(q, k) == q.n < k * q.d

\* round(q, 1), in tenths.  An exact tie goes to the even tenth.
round1(q) ==
    LET x == 10 * q.n
        f == x \div q.d
        r == x % q.d
    IN  IF 2 * r < q.d THEN f
        ELSE IF 2 * r > q.d THEN f + 1
        ELSE IF f % 2 = 0 THEN f ELSE f + 1

(***************************************************************************)
(* Match records and the loops that collect them.                          *)
(***************************************************************************)
MatchRecord(resume_skill, job_skill, match_type) ==
    [resume_skill |-> resume_skill, job_skill |-> job_skill,
     match_type |-> match_type]


\* mutant: the two loops nested the other way round
Collect_JobMajor(resume_skills, job_skills, hit, match_type) ==
    LET column(j) ==
            LET F[i \in 0..Len(resume_skills)] ==
                    IF i = 0 THEN <<>>
                    ELSE IF hit[i, j]
                         THEN Append(F[i - 1],
                                     MatchRecord(resume_skills[i], job_skills[j],
                                                 match_type))
                         ELSE F[i - 1]
            IN  F[Len(resume_skills)]
        G[j \in 0..Len(job_skills)] ==
            IF j = 0 THEN <<>> ELSE G[j - 1] \o column(j)
    IN  G[Len(job_skills)]

\* for resume_skill in resume_skills: for job_skill in job_skills:
\*     if <test>: records.append({...})
\* hit[i, j] is the loop's test for the i-th resume skill and j-th job skill.
Collect(resume_skills, job_skills, hit, match_type) ==
    LET row(i) ==
            LET F[j \in 0..Len(job_skills)] ==
                    IF j = 0 THEN <<>>
                    ELSE IF hit[i, j]
                         THEN Append(F[j - 1],
                                     MatchRecord(resume_skills[i], job_skills[j],
                                                 match_type))
                         ELSE F[j - 1]
            IN  F[Len(job_skills)]
        G[i \in 0..Len(resume_skills)] ==
            IF i = 0 THEN <<>> ELSE G[i - 1] \o row(i)
    IN  G[Len(resume_skills)]

\* [m["job_skill"].lower() for m in records]
JobNamesLower(records) == {lower(records[i].job_skill) : i \in 1..Len(records)}

HasNone(skills) == \E i \in 1..Len(skills) : skills[i] = Null

\* the outcome of a call that ends in AttributeError
\* ('NoneType' object has no attribute 'lower')
Raised(function) == [raised |-> "AttributeError", in |-> function]

IsRaised(outcome) == "raised" \in DOMAIN outcome

(***************************************************************************)
(* Scoring: job_analysis.py, the expressions shared in shape by            *)
(* analyze_skill_match and generate_demo_skill_match.                      *)
(***************************************************************************)

\* mutant: a category without job skills counts as fully matched
match_percent_EmptyIsFull(matched, total) ==
    IF total > 0 THEN Rat(matched * 100, total) ELSE Rat(100, 1)

\* matched / total * 100 if total > 0 else 0
match_percent(matched, total) ==
    IF total > 0 THEN Rat(matched * 100, total) ELSE Rat(0, 1)

\* required_match_percent * 0.7 + preferred_match_percent * 0.3
Weighted(required_match_percent, preferred_match_percent) ==
    Rat(7 * required_match_percent.n * preferred_match_percent.d
          + 3 * preferred_match_percent.n * required_match_percent.d,
        10 * required_match_percent.d * preferred_match_percent.d)

\* mutant: matched counts the exact records only
CategoryResult_ExactOnly(job_skills, exact, partial, percent, missing) ==
    [total            |-> Len(job_skills),
     matched          |-> Len(exact),
     match_percentage |-> round1(percent),
     exact_matches    |-> exact,
     partial_matches  |-> partial,
     missing          |-> missing]

CategoryResult(job_skills, exact, partial, percent, missing) ==
    [total            |-> Len(job_skills),
     matched          |-> Len(exact) + Len(partial),
     match_percentage |-> round1(percent),
     exact_matches    |-> exact,
     partial_matches  |-> partial,
     missing          |-> missing]

(***************************************************************************)
(* generate_demo_skill_match                                               *)
(***************************************************************************)
demo_required_skills ==
    << <<"J","a","v","a","S","c","r","i","p","t">>,
       <<"P","y","t","h","o","n">>,
       <<"R","e","a","c","t">>,
       <<"N","o","d","e",".","j","s">> >>

demo_preferred_skills ==
    << <<"D","o","c","k","e","r">>,
       <<"A","W","S">>,
       <<"T","y","p","e","S","c","r","i","p","t">>,
       <<"G","i","t">> >>

demo_note ==
    "This is a demo analysis using sample job requirements. For accurate matching, please configure OpenAI API credentials."

\* mutant: the demo comparison without case folding
DemoExact_CaseSensitive(resume_skill, demo_skill) == resume_skill = demo_skill

\* resume_skill.lower() == demo_skill.lower()
DemoExact(resume_skill, demo_skill) == lower(resume_skill) = lower(demo_skill)

DemoMatches(resume_skills, demo_skills) ==
    Collect(resume_skills, demo_skills,
            [i \in 1..Len(resume_skills), j \in 1..Len(demo_skills) |->
                DemoExact(resume_skills[i], demo_skills[j])],
            "exact")

\* [skill for skill in demo_skills if skill.lower() not in matched_names]
DemoMissing(demo_skills, matched) ==
    SelectSeq(demo_skills, LAMBDA skill : lower(skill) \notin JobNamesLower(matched))

demo_overall_match_percent(required_match_percent, preferred_match_percent) ==
    Weighted(required_match_percent, preferred_match_percent)

demo_analysis_summary(overall_match_percent) ==
    [strong_match |-> AtLeast(overall_match_percent, 80),
     good_match   |-> AtLeast(overall_match_percent, 60) /\ Below(overall_match_percent, 80),
     fair_match   |-> AtLeast(overall_match_percent, 40) /\ Below(overall_match_percent, 60),
     weak_match   |-> Below(overall_match_percent, 40)]

generate_demo_skill_match(resume_skills) ==
    IF HasNone(resume_skills)
    THEN Raised("generate_demo_skill_match")
    ELSE
    LET matched_required  == DemoMatches(resume_skills, demo_required_skills)
        matched_preferred == DemoMatches(resume_skills, demo_preferred_skills)
        required_match_percent ==
            match_percent(Len(matched_required), Len(demo_required_skills))
        preferred_match_percent ==
            match_percent(Len(matched_preferred), Len(demo_preferred_skills))
        overall_match_percent ==
            demo_overall_match_percent(required_match_percent, preferred_match_percent)
    IN  [overall_match_percentage |-> round1(overall_match_percent),
         required_skills  |->
             CategoryResult(demo_required_skills, matched_required, <<>>,
                            required_match_percent,
                            DemoMissing(demo_required_skills, matched_required)),
         preferred_skills |->
             CategoryResult(demo_preferred_skills, matched_preferred, <<>>,
                            preferred_match_percent,
                            DemoMissing(demo_preferred_skills, matched_preferred)),
         resume_skills    |-> resume_skills,
         analysis_summary |-> demo_analysis_summary(overall_match_percent),
         demo_mode        |-> TRUE,
         demo_note        |-> demo_note]

(***************************************************************************)
(* analyze_skill_match                                                     *)
(***************************************************************************)
\* mutant: the demo check with `or`
DemoTriggered_Either(job_required_skills, job_preferred_skills) ==
    Len(job_required_skills) = 0 \/ Len(job_preferred_skills) = 0

\* if not job_required_skills and not job_preferred_skills:
DemoTriggered(job_required_skills, job_preferred_skills) ==
    Len(job_required_skills) = 0 /\ Len(job_preferred_skills) = 0

\* [skill.lower().strip() for skill in skills if skill]: computed for the three
\* lists and used by nothing that follows
skills_lower(skills) ==
    LET kept == SelectSeq(skills, Truthy)
    IN  [i \in 1..Len(kept) |-> strip(lower(kept[i]))]



\* mutant: the exact comparison written with `in`
Exact_Substring(resume_skill, job_skill) ==
    In(strip(lower(resume_skill)), strip(lower(job_skill)))

\* mutant: the exact comparison without strip()
Exact_Untrimmed(resume_skill, job_skill) == lower(resume_skill) = lower(job_skill)

\* resume_skill_lower == job_skill.lower().strip()
Exact(resume_skill, job_skill) ==
    strip(lower(resume_skill)) = strip(lower(job_skill))

ExactMatches(resume_skills, job_skills) ==
    Collect(resume_skills, job_skills,
            [i \in 1..Len(resume_skills), j \in 1..Len(job_skills) |->
                Exact(resume_skills[i], job_skills[j])],
            "exact")


\* mutant: the substring test in one direction only
Contained_OneWay(resume_skill, job_skill) ==
    In(strip(lower(resume_skill)), strip(lower(job_skill)))

\* resume_skill_lower in job_skill_lower or job_skill_lower in resume_skill_lower
Contained(resume_skill, job_skill) ==
    \/ In(strip(lower(resume_skill)), strip(lower(job_skill)))
    \/ In(strip(lower(job_skill)), strip(lower(resume_skill)))


\* mutant: the exclusion test compares with the job side of the records
ExactlyMatched_ByJob(resume_skill, matched) ==
    \E i \in 1..Len(matched) :
        lower(matched[i].job_skill) = lower(resume_skill)

\* any(m["resume_skill"].lower() == resume_skill.lower() for m in matched)
ExactlyMatched(resume_skill, matched) ==
    \E i \in 1..Len(matched) :
        lower(matched[i].resume_skill) = lower(resume_skill)

PartialMatches(resume_skills, job_skills, matched) ==
    Collect(resume_skills, job_skills,
            [i \in 1..Len(resume_skills), j \in 1..Len(job_skills) |->
                /\ Contained(resume_skills[i], job_skills[j])
                /\ ~ExactlyMatched(resume_skills[i], matched)],
            "partial")



\* mutant: the missing filter compares with the resume side of the records
Missing_ByResume(job_skills, records) ==
    SelectSeq(job_skills,
              LAMBDA skill : lower(skill) \notin
                  {lower(records[i].resume_skill) : i \in 1..Len(records)})

\* mutant: the filter of the missing list without its `not`
Missing_Inverted(job_skills, records) ==
    SelectSeq(job_skills, LAMBDA skill : lower(skill) \in JobNamesLower(records))

\* [skill for skill in job_skills if skill.lower() not in matched_skills_lower]
Missing(job_skills, records) ==
    SelectSeq(job_skills, LAMBDA skill : lower(skill) \notin JobNamesLower(records))


\* mutant: a category without matches leaves the score to the other one
overall_match_percent_Renormalised(required_match_percent, preferred_match_percent, total_preferred) ==
    IF total_preferred > 0
    THEN IF required_match_percent.n = 0
         THEN preferred_match_percent
         ELSE Weighted(required_match_percent, preferred_match_percent)
    ELSE required_match_percent

\* mutant: the two weights exchanged
overall_match_percent_Swapped(required_match_percent, preferred_match_percent, total_preferred) ==
    IF total_preferred > 0
    THEN Weighted(preferred_match_percent, required_match_percent)
    ELSE required_match_percent

overall_match_percent(required_match_percent, preferred_match_percent, total_preferred) ==
    IF total_preferred > 0
    THEN Weighted(required_match_percent, preferred_match_percent)
    ELSE required_match_percent

\* mutant: good_match starting at 50
analysis_summary_Good50(overall) ==
    [strong_match |-> AtLeast(overall, 80),
     good_match   |-> AtLeast(overall, 50) /\ Below(overall, 80),
     fair_match   |-> AtLeast(overall, 40) /\ Below(overall, 60),
     weak_match   |-> Below(overall, 40)]

analysis_summary(overall) ==
    [strong_match |-> AtLeast(overall, 80),
     good_match   |-> AtLeast(overall, 60) /\ Below(overall, 80),
     fair_match   |-> AtLeast(overall, 40) /\ Below(overall, 60),
     weak_match   |-> Below(overall, 40)]

\* The missing lists, totals, percentages and the returned dict (lines
\* 341-384), from the lists the two passes have built.
ScoredReport(resume_skills, job_required_skills, job_preferred_skills, matched_required, matched_preferred, partial_matched_required, partial_matched_preferred) ==
    LET total_required  == Len(job_required_skills)
        total_preferred == Len(job_preferred_skills)
        required_match_percent ==
            match_percent(Len(matched_required) + Len(partial_matched_required),
                          total_required)
        preferred_match_percent ==
            match_percent(Len(matched_preferred) + Len(partial_matched_preferred),
                          total_preferred)
        overall ==
            overall_match_percent(required_match_percent, preferred_match_percent,
                                  total_preferred)
    IN  [overall_match_percentage |-> round1(overall),
         required_skills  |->
             CategoryResult(job_required_skills, matched_required,
                            partial_matched_required, required_match_percent,
                            Missing(job_required_skills,
                                    matched_required \o partial_matched_required)),
         preferred_skills |->
             CategoryResult(job_preferred_skills, matched_preferred,
                            partial_matched_preferred, preferred_match_percent,
                            Missing(job_preferred_skills,
                                    matched_preferred \o partial_matched_preferred)),
         resume_skills    |-> resume_skills,
         analysis_summary |-> analysis_summary(overall)]


\* The report of the code after the demo check (lines 283-384).  A None entry
\* ends the call in AttributeError: in the resume list at line 293, in a job
\* list at line 297 or, when the resume list is empty, at lines 342-348.
MatchReport(resume_skills, job_required_skills, job_preferred_skills) ==
    IF \/ HasNone(resume_skills)
       \/ HasNone(job_required_skills)
       \/ HasNone(job_preferred_skills)
    THEN Raised("analyze_skill_match")
    ELSE
    LET matched_required  == ExactMatches(resume_skills, job_required_skills)
        matched_preferred == ExactMatches(resume_skills, job_preferred_skills)
        partial_matched_required ==
            PartialMatches(resume_skills, job_required_skills, matched_required)
        partial_matched_preferred ==
            PartialMatches(resume_skills, job_preferred_skills, matched_preferred)
    IN  ScoredReport(resume_skills, job_required_skills, job_preferred_skills,
                     matched_required, matched_preferred,
                     partial_matched_required, partial_matched_preferred)

\* mutant: no demo fallback, the standard steps run on the empty lists
analyze_skill_match_NoFallback(resume_skills, job_required_skills, job_preferred_skills) ==
    MatchReport(resume_skills, job_required_skills, job_preferred_skills)

analyze_skill_match(resume_skills, job_required_skills, job_preferred_skills) ==
    IF DemoTriggered(job_required_skills, job_preferred_skills)
    THEN generate_demo_skill_match(resume_skills)
    ELSE MatchReport(resume_skills, job_required_skills, job_preferred_skills)

(***************************************************************************)
(* main.py: generate_recommendations                                       *)
(***************************************************************************)

\* mutant: the slice taken from the end of the list
Top5_Last(skills) ==
    SubSeq(skills, IF Len(skills) < 5 THEN 1 ELSE Len(skills) - 4, Len(skills))

\* skills[:5]
Top5(skills) == SubSeq(skills, 1, IF Len(skills) < 5 THEN Len(skills) ELSE 5)

\* overall_match is the report's rounded percentage, in tenths
overall_assessment(overall_match) ==
    IF overall_match >= 800
    THEN "Excellent match! You have most of the required skills for this position."
    ELSE IF overall_match >= 600
    THEN "Good match! You meet many requirements but could strengthen a few areas."
    ELSE IF overall_match >= 400
    THEN "Fair match. Consider developing additional skills before applying."
    ELSE "Limited match. Significant skill development needed for this role."


\* mutant: the counts taken from the lists cut to five entries
action_items_Capped(overall_match, missing_required, missing_preferred) ==
    (IF Len(missing_required) > 0
     THEN << <<"Focus on learning ", Len(Top5(missing_required)),
               " missing required skills">> >>
     ELSE <<>>)
    \o
    (IF Len(missing_preferred) > 0
     THEN << <<"Consider learning ", Len(Top5(missing_preferred)),
               " preferred skills to stand out">> >>
     ELSE <<>>)
    \o
    (IF overall_match >= 700
     THEN << <<"You're a strong candidate - consider applying!">> >>
     ELSE <<>>)

\* An action item is the tuple of the parts its f-string joins.
action_items(overall_match, missing_required, missing_preferred) ==
    (IF Len(missing_required) > 0
     THEN << <<"Focus on learning ", Len(missing_required),
               " missing required skills">> >>
     ELSE <<>>)
    \o
    (IF Len(missing_preferred) > 0
     THEN << <<"Consider learning ", Len(missing_preferred),
               " preferred skills to stand out">> >>
     ELSE <<>>)
    \o
    (IF overall_match >= 700
     THEN << <<"You're a strong candidate - consider applying!">> >>
     ELSE <<>>)

generate_recommendations(report) ==
    LET overall_match     == report.overall_match_percentage
        missing_required  == report.required_skills.missing
        missing_preferred == report.preferred_skills.missing
    IN  [overall_assessment  |-> overall_assessment(overall_match),
         priority_skills     |-> Top5(missing_required),
         nice_to_have_skills |-> Top5(missing_preferred),
         action_items        |->
             action_items(overall_match, missing_required, missing_preferred)]

(***************************************************************************)
(* Inputs.                                                                 *)
(***************************************************************************)
Java       == <<"J","a","v","a">>
java       == <<"j","a","v","a">>
javascript == <<"j","a","v","a","s","c","r","i","p","t">>
git        == <<"g","i","t">>
git_padded == <<" ","g","i","t">>
empty      == <<>>
blank      == <<" ">>

\* The entries of the enumerated lists: a skill, a case variant of it, a
\* skill that contains it, a case variant of a reference skill and a padded
\* form of it, the empty string, a whitespace-only string, and None.
Vocabulary == {Java, java, javascript, git, git_padded, empty, blank, Null}

ListsOf(n) == [1..n -> Vocabulary]

\* Long lists of distinct two-letter skills, none a substring of another.
ScaleLetters == <<"k","l","m","n","o","p">>
ScaleSkill(i) ==
    << ScaleLetters[((i - 1) \div Len(ScaleLetters)) + 1],
       ScaleLetters[((i - 1) % Len(ScaleLetters)) + 1] >>
scale_required  == [i \in 1..ScaleRequired |-> ScaleSkill(i)]
scale_preferred == [i \in 1..ScalePreferred |-> ScaleSkill(ScaleRequired + i)]

(***************************************************************************)
(* State: one request to /analyze-skills (main.py, analyze_skills_match).  *)
(***************************************************************************)
VARIABLES
    pc,                    \* "idle", "called", "analysed", "raised", "done"
    resume_skills,         \* the three arguments of analyze_skill_match
    job_required_skills,
    job_preferred_skills,
    match_analysis,        \* the outcome of analyze_skill_match
    recommendations        \* the result of generate_recommendations

\* State of the handlers around the skill match (main.py).
VARIABLES
    chat_messages,         \* the committed rows of the table chat_messages
    db,                    \* per /chat request: the rows its session has added
    next_order,            \* per /chat request: its local next_order
    job_analysis_results,  \* the global dict of main.py, analysis_id -> entry
    response,              \* the last response of a handler
    job_text               \* the text given to generate_mock_job_analysis

chat_vars == <<chat_messages, db, next_order>>

job_vars == <<job_analysis_results, job_text>>

vars == <<pc, resume_skills, job_required_skills, job_preferred_skills,
          match_analysis, recommendations, chat_vars, job_vars, response>>

None == [none |-> TRUE]

\* no /chat request has been made
NoChat ==
    /\ chat_messages = <<>>
    /\ db = <<>>
    /\ next_order = <<>>

\* no job description has been uploaded or parsed
NoJobs ==
    /\ job_analysis_results = <<>>
    /\ job_text = <<>>

Init ==
    /\ pc = "idle"
    /\ NoChat
    /\ NoJobs
    /\ response = None
    /\ resume_skills = <<>>
    /\ job_required_skills = <<>>
    /\ job_preferred_skills = <<>>
    /\ match_analysis = None
    /\ recommendations = None

\* The handler has read the resume's skills and the job's two skill lists.
Call(resume, required, preferred) ==
    /\ pc = "idle"
    /\ UNCHANGED <<chat_vars, job_analysis_results, response>>
    /\ pc' = "called"
    /\ resume_skills' = resume
    /\ job_required_skills' = required
    /\ job_preferred_skills' = preferred
    /\ UNCHANGED <<match_analysis, recommendations>>

CallEnumerated ==
    /\ pc = "idle"
    /\ UNCHANGED job_text
    /\ \E a \in 0..MaxEntries :
         \E b \in 0..(MaxEntries - a) :
           \E c \in 0..(MaxEntries - a - b) :
             \E resume \in ListsOf(a), required \in ListsOf(b), preferred \in ListsOf(c) :
               Call(resume, required, preferred)

CallScale ==
    /\ pc = "idle"
    /\ UNCHANGED job_text
    /\ \E m1 \in 0..ScaleRequired, m2 \in 0..ScalePreferred :
        Call(SubSeq(scale_required, 1, m1) \o SubSeq(scale_preferred, 1, m2),
             scale_required, scale_preferred)


react == <<"r","e","a","c","t">>

\* Lists in which the resume order and the job order cross: the first resume
\* skill matches a later job entry than the second one does, exactly or
\* partially, in the standard path and against the reference lists.
CrossedInputs ==
    { << <<java, git>>, <<empty, javascript>>, <<git_padded, java>> >>,
      << <<git, Java>>, <<java, git>>, <<javascript, empty>> >>,
      << <<react, javascript>>, <<>>, <<>> >> }

CallCrossed ==
    /\ pc = "idle"
    /\ UNCHANGED job_text
    /\ \E input \in CrossedInputs : Call(input[1], input[2], input[3])

\* match_analysis = analyze_skill_match(resume_skills, ...)
AnalyzeSkillMatch ==
    /\ pc = "called"
    /\ UNCHANGED <<chat_vars, job_vars, response>>
    /\ match_analysis' =
           analyze_skill_match(resume_skills, job_required_skills, job_preferred_skills)
    /\ pc' = IF IsRaised(match_analysis') THEN "raised" ELSE "analysed"
    /\ UNCHANGED <<resume_skills, job_required_skills, job_preferred_skills,
                   recommendations>>


\* mutant: the missing lists cut to five entries in place (del missing[5:])
\* before they are read
GenerateRecommendations_Truncating ==
    /\ pc = "analysed"
    /\ UNCHANGED <<chat_vars, job_vars, response>>
    /\ match_analysis' =
         [match_analysis EXCEPT
            !.required_skills.missing  = Top5(@),
            !.preferred_skills.missing = Top5(@)]
    /\ recommendations' = generate_recommendations(match_analysis')
    /\ pc' = "done"
    /\ UNCHANGED <<resume_skills, job_required_skills, job_preferred_skills>>

\* "recommendations": generate_recommendations(match_analysis)
GenerateRecommendations ==
    /\ pc = "analysed"
    /\ UNCHANGED <<chat_vars, job_vars, response>>
    /\ recommendations' = generate_recommendations(match_analysis)
    /\ pc' = "done"
    /\ UNCHANGED <<resume_skills, job_required_skills, job_preferred_skills,
                   match_analysis>>

\* The handler returns its result, or the exception leaves it.
Return ==
    /\ pc \in {"done", "raised"}
    /\ UNCHANGED <<chat_vars, job_vars, response>>
    /\ pc' = "idle"
    /\ resume_skills' = <<>>
    /\ job_required_skills' = <<>>
    /\ job_preferred_skills' = <<>>
    /\ match_analysis' = None
    /\ recommendations' = None

Next ==
    \/ CallEnumerated
    \/ CallScale
    \/ CallCrossed
    \/ AnalyzeSkillMatch
    \/ GenerateRecommendations
    \/ Return

Spec == Init /\ [][Next]_vars


(***************************************************************************)
(* Concurrent requests to /analyze-skills.  Under SpecConcurrent every     *)
(* variable holds one value per invocation: pc[i] and the three argument   *)
(* lists of invocation i, match_analysis[f] the four local lists of the    *)
(* activation of analyze_skill_match in frame f, recommendations[i] the    *)
(* handler's locals: the returned report, then its result dict.            *)
(***************************************************************************)
NumInvocations == 2

Invocations == 1..NumInvocations

\* mutant: the lists of analyze_skill_match kept at module level, one set
\* for all calls
Frame_Shared(i) == 1

\* the activation a call runs in: Python gives every call its own locals
Frame(i) == i

\* matched_required = [] ... partial_matched_preferred = []
NewFrame ==
    [matched_required          |-> <<>>,
     matched_preferred         |-> <<>>,
     partial_matched_required  |-> <<>>,
     partial_matched_preferred |-> <<>>]

\* The argument lists of the concurrent requests: exact and partial matches
\* in both categories, an excluded partial match, the same resume with one
\* job list kept and the other one changed, an empty resume, the demo
\* fallback, and a None entry met by the exact pass and by the missing
\* filter.
ConcurrentInputs ==
    { << <<Java>>, <<java, javascript>>, <<git>> >>,
      << <<javascript, git_padded>>, <<Java>>, <<git>> >>,
      << <<javascript, git_padded>>, <<Java>>, <<javascript>> >>,
      << <<javascript, git_padded>>, <<>>, <<git>> >>,
      << <<>>, <<Java>>, <<>> >>,
      << <<git>>, <<>>, <<>> >>,
      << <<Null>>, <<Java>>, <<>> >>,
      << <<>>, <<Null>>, <<>> >> }

InitConcurrent ==
    /\ pc = [i \in Invocations |-> "idle"]
    /\ NoChat
    /\ NoJobs
    /\ response = None
    /\ resume_skills = [i \in Invocations |-> <<>>]
    /\ job_required_skills = [i \in Invocations |-> <<>>]
    /\ job_preferred_skills = [i \in Invocations |-> <<>>]
    /\ match_analysis = [f \in Invocations |-> NewFrame]
    /\ recommendations = [i \in Invocations |-> None]

\* main.py 401-419: the handler has its three lists
Invoke(i) ==
    /\ pc[i] = "idle"
    /\ UNCHANGED <<chat_vars, job_vars, response>>
    /\ \E input \in ConcurrentInputs :
         /\ resume_skills' = [resume_skills EXCEPT ![i] = input[1]]
         /\ job_required_skills' = [job_required_skills EXCEPT ![i] = input[2]]
         /\ job_preferred_skills' = [job_preferred_skills EXCEPT ![i] = input[3]]
    /\ pc' = [pc EXCEPT ![i] = "called"]
    /\ UNCHANGED <<match_analysis, recommendations>>

\* job_analysis.py 279-281: the demo check sends the call to
\* generate_demo_skill_match, which has no state but its own locals
Fallback(i) ==
    /\ pc[i] = "called"
    /\ UNCHANGED <<chat_vars, job_vars, response>>
    /\ DemoTriggered(job_required_skills[i], job_preferred_skills[i])
    /\ LET outcome == generate_demo_skill_match(resume_skills[i])
       IN  IF IsRaised(outcome)
           THEN /\ pc' = [pc EXCEPT ![i] = "raised"]
                /\ UNCHANGED recommendations
           ELSE /\ pc' = [pc EXCEPT ![i] = "analysed"]
                /\ recommendations' =
                     [recommendations EXCEPT ![i] = [match_analysis |-> outcome]]
    /\ UNCHANGED <<resume_skills, job_required_skills, job_preferred_skills,
                   match_analysis>>

\* job_analysis.py 288-311: the exact loop fills matched_required and
\* matched_preferred; it ends in AttributeError at the first None it lowers
MatchExactly(i) ==
    /\ pc[i] = "called"
    /\ UNCHANGED <<chat_vars, job_vars, response>>
    /\ ~DemoTriggered(job_required_skills[i], job_preferred_skills[i])
    /\ IF \/ HasNone(resume_skills[i])
          \/ /\ Len(resume_skills[i]) > 0
             /\ HasNone(job_required_skills[i]) \/ HasNone(job_preferred_skills[i])
       THEN /\ pc' = [pc EXCEPT ![i] = "raised"]
            /\ match_analysis' = [match_analysis EXCEPT ![Frame(i)] = NewFrame]
       ELSE /\ pc' = [pc EXCEPT ![i] = "exact"]
            /\ match_analysis' =
                 [match_analysis EXCEPT ![Frame(i)] =
                     [NewFrame EXCEPT
                        !.matched_required =
                            ExactMatches(resume_skills[i], job_required_skills[i]),
                        !.matched_preferred =
                            ExactMatches(resume_skills[i], job_preferred_skills[i])]]
    /\ UNCHANGED <<resume_skills, job_required_skills, job_preferred_skills,
                   recommendations>>


\* mutant: the partial loop over the required skills tests the exclusion
\* against matched_preferred
MatchPartially_CrossedExclusion(i) ==
    /\ pc[i] = "exact"
    /\ UNCHANGED <<chat_vars, job_vars, response>>
    /\ pc' = [pc EXCEPT ![i] = "partial"]
    /\ LET frame == match_analysis[Frame(i)]
       IN  match_analysis' =
             [match_analysis EXCEPT ![Frame(i)] =
                 [frame EXCEPT
                    !.partial_matched_required =
                        PartialMatches(resume_skills[i], job_required_skills[i],
                                       frame.matched_preferred),
                    !.partial_matched_preferred =
                        PartialMatches(resume_skills[i], job_preferred_skills[i],
                                       frame.matched_preferred)]]
    /\ UNCHANGED <<resume_skills, job_required_skills, job_preferred_skills,
                   recommendations>>

\* job_analysis.py 313-339: the partial loop reads matched_required and
\* matched_preferred and fills the two partial lists
MatchPartially(i) ==
    /\ pc[i] = "exact"
    /\ UNCHANGED <<chat_vars, job_vars, response>>
    /\ pc' = [pc EXCEPT ![i] = "partial"]
    /\ LET frame == match_analysis[Frame(i)]
       IN  match_analysis' =
             [match_analysis EXCEPT ![Frame(i)] =
                 [frame EXCEPT
                    !.partial_matched_required =
                        PartialMatches(resume_skills[i], job_required_skills[i],
                                       frame.matched_required),
                    !.partial_matched_preferred =
                        PartialMatches(resume_skills[i], job_preferred_skills[i],
                                       frame.matched_preferred)]]
    /\ UNCHANGED <<resume_skills, job_required_skills, job_preferred_skills,
                   recommendations>>

\* job_analysis.py 341-384: the missing filters, which end in AttributeError
\* at a None job entry, the percentages and the dict returned to the handler
Score(i) ==
    /\ pc[i] = "partial"
    /\ UNCHANGED <<chat_vars, job_vars, response>>
    /\ LET frame == match_analysis[Frame(i)]
       IN  IF HasNone(job_required_skills[i]) \/ HasNone(job_preferred_skills[i])
           THEN /\ pc' = [pc EXCEPT ![i] = "raised"]
                /\ UNCHANGED recommendations
           ELSE /\ pc' = [pc EXCEPT ![i] = "analysed"]
                /\ recommendations' =
                     [recommendations EXCEPT ![i] =
                         [match_analysis |->
                             ScoredReport(resume_skills[i], job_required_skills[i],
                                          job_preferred_skills[i],
                                          frame.matched_required,
                                          frame.matched_preferred,
                                          frame.partial_matched_required,
                                          frame.partial_matched_preferred)]]
    /\ match_analysis' = [match_analysis EXCEPT ![Frame(i)] = NewFrame]
    /\ UNCHANGED <<resume_skills, job_required_skills, job_preferred_skills>>

\* main.py 429-444: the handler's result dict, from the returned report
Combine(i) ==
    /\ pc[i] = "analysed"
    /\ UNCHANGED <<chat_vars, job_vars, response>>
    /\ pc' = [pc EXCEPT ![i] = "done"]
    /\ LET report == recommendations[i].match_analysis
       IN  recommendations' =
             [recommendations EXCEPT ![i] =
                 [match_analysis  |-> report,
                  recommendations |-> generate_recommendations(report)]]
    /\ UNCHANGED <<resume_skills, job_required_skills, job_preferred_skills,
                   match_analysis>>

\* main.py 448, or the error response: the request is over and its locals
\* are gone
Finish(i) ==
    /\ pc[i] \in {"done", "raised"}
    /\ UNCHANGED <<chat_vars, job_vars, response>>
    /\ pc' = [pc EXCEPT ![i] = "idle"]
    /\ resume_skills' = [resume_skills EXCEPT ![i] = <<>>]
    /\ job_required_skills' = [job_required_skills EXCEPT ![i] = <<>>]
    /\ job_preferred_skills' = [job_preferred_skills EXCEPT ![i] = <<>>]
    /\ recommendations' = [recommendations EXCEPT ![i] = None]
    /\ UNCHANGED match_analysis

NextConcurrent ==
    \E i \in Invocations :
        \/ Invoke(i)
        \/ Fallback(i)
        \/ MatchExactly(i)
        \/ MatchPartially(i)
        \/ Score(i)
        \/ Combine(i)
        \/ Finish(i)

SpecConcurrent == InitConcurrent /\ [][NextConcurrent]_vars

(***************************************************************************)
(* Properties.                                                             *)
(***************************************************************************)
\* match_analysis holds a MatchReport
Analysed == pc \in {"analysed", "done"}

\* analyze_skill_match has ended, with a report or in an error
Ended == pc \in {"analysed", "done", "raised"}

CategoriesOf(report) == {report.required_skills, report.preferred_skills}

RecordsOf(category) ==
    {category.exact_matches[i] : i \in 1..Len(category.exact_matches)}
        \cup {category.partial_matches[i] : i \in 1..Len(category.partial_matches)}

\* C1: in each category of every returned report, matched <= total.
C1_MatchedAtMostTotal ==
    Analysed => \A c \in CategoriesOf(match_analysis) : c.matched <= c.total

\* C2: in each category of every returned report, matched is the number of
\* exact records plus the number of partial records.
C2_MatchedIsExactPlusPartial ==
    Analysed =>
        \A c \in CategoriesOf(match_analysis) :
            c.matched = Len(c.exact_matches) + Len(c.partial_matches)

\* C2 witness: a report with an exact and a partial record in one category.
C2_Witness ==
    /\ Analysed
    /\ Len(match_analysis.required_skills.exact_matches) > 0
    /\ Len(match_analysis.required_skills.partial_matches) > 0

\* the fields of a MatchReport that two reports are compared on
SameMatchReport(a, b) ==
    /\ a.overall_match_percentage = b.overall_match_percentage
    /\ a.required_skills = b.required_skills
    /\ a.preferred_skills = b.preferred_skills
    /\ a.resume_skills = b.resume_skills
    /\ a.analysis_summary = b.analysis_summary

\* the report of the standard steps for the reference lists
StandardOnReference ==
    MatchReport(resume_skills, demo_required_skills, demo_preferred_skills)

IsDemoReport(report) == "demo_mode" \in DOMAIN report

\* C3 as stated: the demo report is the report of the standard matching and
\* scoring steps for the resume against the reference lists, with
\* demo_mode = true added.
C3_DemoIsStandardOnReference ==
    (Analysed /\ IsDemoReport(match_analysis)) =>
        /\ match_analysis.demo_mode = TRUE
        /\ SameMatchReport(match_analysis, StandardOnReference)

Trimmed(skills) == \A i \in 1..Len(skills) : strip(skills[i]) = skills[i]

\* C3 amended: the demo report carries demo_mode = true and empty partial
\* lists, and it agrees with the standard steps on the reference lists on
\* every MatchReport field whenever no resume entry has surrounding
\* whitespace and the standard partial pass finds nothing.
C3_DemoAgreesWithoutPartialOrPadding ==
    (Analysed /\ IsDemoReport(match_analysis)) =>
        /\ match_analysis.demo_mode = TRUE
        /\ match_analysis.required_skills.partial_matches = <<>>
        /\ match_analysis.preferred_skills.partial_matches = <<>>
        /\ ( ( /\ Trimmed(resume_skills)
               /\ StandardOnReference.required_skills.partial_matches = <<>>
               /\ StandardOnReference.preferred_skills.partial_matches = <<>> )
             => SameMatchReport(match_analysis, StandardOnReference) )

\* C3 witness: a demo report with matches in both categories, for a resume
\* the amended statement covers.
C3_Witness ==
    /\ Analysed
    /\ IsDemoReport(match_analysis)
    /\ Trimmed(resume_skills)
    /\ StandardOnReference.required_skills.partial_matches = <<>>
    /\ StandardOnReference.preferred_skills.partial_matches = <<>>
    /\ match_analysis.required_skills.matched > 0
    /\ match_analysis.preferred_skills.matched > 0

Blank(skill) == strip(skill) = <<>>

WithoutBlanks(skills) == SelectSeq(skills, LAMBDA skill : ~Blank(skill))

\* the counts and percentages of a report
Scores(report) ==
    <<report.required_skills.matched, report.required_skills.total,
      report.required_skills.match_percentage,
      report.preferred_skills.matched, report.preferred_skills.total,
      report.preferred_skills.match_percentage,
      report.overall_match_percentage>>

\* C4: an empty or whitespace-only entry is the resume_skill or job_skill of
\* no record, and the report's matched, total and percentages are those of
\* the lists without such entries.
C4_BlankEntriesDiscarded ==
    Analysed =>
        /\ \A c \in CategoriesOf(match_analysis) :
             \A m \in RecordsOf(c) : ~Blank(m.resume_skill) /\ ~Blank(m.job_skill)
        /\ Scores(match_analysis) =
             Scores(analyze_skill_match(WithoutBlanks(resume_skills),
                                        WithoutBlanks(job_required_skills),
                                        WithoutBlanks(job_preferred_skills)))

\* the list without the later repetitions of an entry
RECURSIVE WithoutRepeats(_)
WithoutRepeats(skills) ==
    IF skills = <<>> THEN <<>>
    ELSE LET front == WithoutRepeats(SubSeq(skills, 1, Len(skills) - 1))
             last  == skills[Len(skills)]
         IN  IF \E i \in 1..Len(front) : front[i] = last
             THEN front ELSE Append(front, last)

\* C5: a resume list that repeats a skill yields the records, counts and
\* percentages of the list without the repetition, and a repeated job skill
\* is counted once in total.
C5_DuplicatesFiltered ==
    Analysed =>
        LET once == analyze_skill_match(WithoutRepeats(resume_skills),
                                        job_required_skills, job_preferred_skills)
        IN  /\ match_analysis.required_skills = once.required_skills
            /\ match_analysis.preferred_skills = once.preferred_skills
            /\ match_analysis.overall_match_percentage = once.overall_match_percentage
            /\ ~IsDemoReport(match_analysis) =>
                 /\ match_analysis.required_skills.total =
                        Len(WithoutRepeats(job_required_skills))
                 /\ match_analysis.preferred_skills.total =
                        Len(WithoutRepeats(job_preferred_skills))

\* C6: analyze_skill_match returns a report for every input of three
\* sequences of strings or None; no call ends in an error.
C6_NeverRaises == pc # "raised"

\* the demo fallback ran: the call returned the demo report, or it ended in
\* an error inside generate_demo_skill_match
DemoTaken(outcome) ==
    IF IsRaised(outcome)
    THEN outcome.in = "generate_demo_skill_match"
    ELSE IsDemoReport(outcome)

\* C7: the demo fallback is taken if and only if both job lists are empty,
\* whatever the resume list is.
C7_DemoIffBothJobListsEmpty ==
    Ended =>
        ( DemoTaken(match_analysis)
            <=> (job_required_skills = <<>> /\ job_preferred_skills = <<>>) )

\* C7 witness: the demo fallback taken for a non-empty resume list.
C7_Witness ==
    /\ Ended
    /\ DemoTaken(match_analysis)
    /\ Len(resume_skills) > 1

Abs(x) == IF x < 0 THEN -x ELSE x

\* C8: the reported overall percentage is required% * 0.7 + preferred% * 0.3
\* when the preferred total is positive and required% otherwise, within 0.1
\* of the value the reported category percentages give.  (In tenths:
\* |O/10 - (0.7 R/10 + 0.3 P/10)| <= 0.1 is |10 O - (7 R + 3 P)| <= 10.)
C8_OverallIsWeightedBlend ==
    Analysed =>
        LET O == match_analysis.overall_match_percentage
            R == match_analysis.required_skills.match_percentage
            P == match_analysis.preferred_skills.match_percentage
        IN  IF match_analysis.preferred_skills.total > 0
            THEN Abs(10 * O - (7 * R + 3 * P)) <= 10
            ELSE Abs(10 * O - 10 * R) <= 10

\* C8 witness: a report whose two category percentages are both positive,
\* different and not whole numbers of tenths before rounding.
C8_Witness ==
    /\ Analysed
    /\ match_analysis.preferred_skills.total > 0
    /\ match_analysis.required_skills.matched > 0
    /\ match_analysis.preferred_skills.matched > 0
    /\ match_analysis.required_skills.match_percentage
         # match_analysis.preferred_skills.match_percentage
    /\ (match_analysis.required_skills.matched * 1000)
         % match_analysis.required_skills.total # 0

SummaryFlags == {"strong_match", "good_match", "fair_match", "weak_match"}

TrueFlags(report) == {f \in SummaryFlags : report.analysis_summary[f]}

\* C9: exactly one of the four analysis_summary flags is true in every
\* returned report.
C9_ExactlyOneFlag ==
    Analysed => Cardinality(TrueFlags(match_analysis)) = 1

\* C9 witness: a report on a band boundary that is not the lowest band.
C9_Witness ==
    /\ Analysed
    /\ match_analysis.overall_match_percentage = 500
    /\ match_analysis.analysis_summary.fair_match

\* the flag whose band generate_recommendations chose
AssessmentFlag(sentence) ==
    CASE sentence = overall_assessment(800) -> "strong_match"
      [] sentence = overall_assessment(600) -> "good_match"
      [] sentence = overall_assessment(400) -> "fair_match"
      [] OTHER -> "weak_match"

\* C10: the band generate_recommendations uses for overall_assessment is the
\* band of the flag that is true in the report's analysis_summary.
C10_AssessmentBandIsSummaryFlag ==
    pc = "done" =>
        match_analysis.analysis_summary[
            AssessmentFlag(recommendations.overall_assessment)]


NoNone == ~HasNone(resume_skills) /\ ~HasNone(job_required_skills)
              /\ ~HasNone(job_preferred_skills)

\* C11: in every returned report, a category whose job list is empty
\* (total = 0) has match_percentage 0 and an empty missing list, and the
\* empty list makes no call fail: a call whose lists hold strings only ends
\* with a report.
C11_EmptyCategoryIsZero ==
    /\ Analysed =>
         \A c \in CategoriesOf(match_analysis) :
            c.total = 0 => (c.match_percentage = 0 /\ c.missing = <<>>)
    /\ (Ended /\ NoNone) => Analysed

\* C11 witness: a report whose required category is empty while the resume
\* matches a preferred skill.
C11_Witness ==
    /\ Analysed
    /\ Len(resume_skills) > 0
    /\ match_analysis.required_skills.total = 0
    /\ match_analysis.preferred_skills.matched > 0

\* C12: every returned report carries a boolean demo_mode, true when the demo
\* fallback ran and false when it did not.
C12_DemoModeIsBoolean ==
    Analysed =>
        /\ "demo_mode" \in DOMAIN match_analysis
        /\ match_analysis.demo_mode \in BOOLEAN
        /\ match_analysis.demo_mode =
             DemoTriggered(job_required_skills, job_preferred_skills)

\* the job lists a report is about: the reference lists in the demo path
RequiredOf(report) ==
    IF IsDemoReport(report) THEN demo_required_skills ELSE job_required_skills
PreferredOf(report) ==
    IF IsDemoReport(report) THEN demo_preferred_skills ELSE job_preferred_skills

Elements(skills) == {skills[i] : i \in 1..Len(skills)}

\* C13: the report of an empty resume list has matched = 0 in each category,
\* each missing list holds every job skill of its category, the overall
\* percentage is 0.0 and weak_match is the true flag.
C13_EmptyResumeMatchesNothing ==
    (Analysed /\ resume_skills = <<>>) =>
        /\ match_analysis.required_skills.matched = 0
        /\ match_analysis.preferred_skills.matched = 0
        /\ match_analysis.required_skills.missing = RequiredOf(match_analysis)
        /\ match_analysis.preferred_skills.missing = PreferredOf(match_analysis)
        /\ match_analysis.overall_match_percentage = 0
        /\ match_analysis.analysis_summary.weak_match

\* C13 witness: the report of an empty resume against two non-empty job
\* lists.
C13_Witness ==
    /\ Analysed
    /\ resume_skills = <<>>
    /\ Len(job_required_skills) > 0
    /\ Len(job_preferred_skills) > 0
    /\ Len(match_analysis.required_skills.missing) > 0

\* C14: whenever both job lists are empty, the returned report has
\* demo_mode = true and its two categories are built from the non-empty
\* reference lists: total > 0 in each, and every record and missing entry
\* names a reference skill.
C14_EmptyJobListsGiveReferenceCategories ==
    (Analysed /\ Len(job_required_skills) = 0 /\ Len(job_preferred_skills) = 0) =>
        /\ IsDemoReport(match_analysis)
        /\ match_analysis.demo_mode = TRUE
        /\ match_analysis.required_skills.total = Len(demo_required_skills)
        /\ match_analysis.preferred_skills.total = Len(demo_preferred_skills)
        /\ match_analysis.required_skills.total > 0
        /\ match_analysis.preferred_skills.total > 0
        /\ \A m \in RecordsOf(match_analysis.required_skills) :
              m.job_skill \in Elements(demo_required_skills)
        /\ \A m \in RecordsOf(match_analysis.preferred_skills) :
              m.job_skill \in Elements(demo_preferred_skills)
        /\ Elements(match_analysis.required_skills.missing)
              \subseteq Elements(demo_required_skills)
        /\ Elements(match_analysis.preferred_skills.missing)
              \subseteq Elements(demo_preferred_skills)

\* C14 witness: a demo report for a non-empty resume that matches reference
\* skills of both categories.
C14_Witness ==
    /\ Analysed
    /\ Len(job_required_skills) = 0
    /\ Len(job_preferred_skills) = 0
    /\ Len(resume_skills) > 1
    /\ match_analysis.required_skills.matched > 0
    /\ match_analysis.preferred_skills.matched > 0

Min(a, b) == IF a < b THEN a ELSE b

\* short is the first entries of long, in the same order, at most five
FirstFiveOf(short, long) ==
    /\ Len(short) = Min(5, Len(long))
    /\ \A i \in 1..Len(short) : short[i] = long[i]

\* C15: priority_skills is the first 5 entries of required_skills.missing and
\* nice_to_have_skills the first 5 of preferred_skills.missing, in the same
\* order, each of length min(5, len(missing)).
C15_FirstFiveMissing ==
    pc = "done" =>
        /\ FirstFiveOf(recommendations.priority_skills,
                       match_analysis.required_skills.missing)
        /\ FirstFiveOf(recommendations.nice_to_have_skills,
                       match_analysis.preferred_skills.missing)

\* C15 witness: recommendations for more than five missing required skills
\* and fewer than five, but some, missing preferred skills.
C15_Witness ==
    /\ pc = "done"
    /\ Len(match_analysis.required_skills.missing) > 5
    /\ Len(match_analysis.preferred_skills.missing) \in 1..4
    /\ Len(recommendations.priority_skills) = 5

RequiredNote(n)  == <<"Focus on learning ", n, " missing required skills">>
PreferredNote(n) == <<"Consider learning ", n, " preferred skills to stand out">>
Encouragement    == <<"You're a strong candidate - consider applying!">>

\* C16: action_items holds, in this order, a required note iff the required
\* missing list is non-empty (with the full number of missing required
\* skills), a preferred note iff the preferred missing list is non-empty, and
\* the encouragement iff the overall percentage is at least 70; nothing else.
C16_ActionItems ==
    pc = "done" =>
        LET items == recommendations.action_items
            nr == Len(match_analysis.required_skills.missing)
            np == Len(match_analysis.preferred_skills.missing)
            strong == match_analysis.overall_match_percentage >= 700
            a == IF nr > 0 THEN 1 ELSE 0
            b == IF np > 0 THEN 1 ELSE 0
            c == IF strong THEN 1 ELSE 0
        IN  /\ Len(items) = a + b + c
            /\ nr > 0 => items[1] = RequiredNote(nr)
            /\ np > 0 => items[a + 1] = PreferredNote(np)
            /\ strong => items[a + b + 1] = Encouragement

\* C16 witness: all three items, with more than five missing required skills.
C16_Witness ==
    /\ pc = "done"
    /\ Len(recommendations.action_items) = 3
    /\ Len(match_analysis.required_skills.missing) > 5

\* the normalized form of a skill: trimmed and lower-cased
Norm(skill) == strip(lower(skill))

Pairs(resume, jobs) == (1..Len(resume)) \X (1..Len(jobs))

RecordOf(resume, jobs, p, match_type) ==
    [resume_skill |-> resume[p[1]], job_skill |-> jobs[p[2]],
     match_type |-> match_type]

\* records holds one record for every pair of hits and no other record
OneRecordPerPair(records, resume, jobs, hits, match_type) ==
    /\ Len(records) = Cardinality(hits)
    /\ \A n \in 1..Len(records) :
          \E p \in hits : records[n] = RecordOf(resume, jobs, p, match_type)
    /\ \A p \in hits :
          Cardinality({n \in 1..Len(records) :
                          records[n] = RecordOf(resume, jobs, p, match_type)})
            = Cardinality({q \in hits :
                              RecordOf(resume, jobs, q, match_type)
                                = RecordOf(resume, jobs, p, match_type)})

\* the pairs whose trimmed, lower-cased forms are equal
ExactPairs(resume, jobs) ==
    {p \in Pairs(resume, jobs) : Norm(resume[p[1]]) = Norm(jobs[p[2]])}

\* the pairs whose lower-cased forms are equal
FoldedPairs(resume, jobs) ==
    {p \in Pairs(resume, jobs) : lower(resume[p[1]]) = lower(jobs[p[2]])}

HasExactRecord(skill, category) ==
    \E n \in 1..Len(category.exact_matches) :
        category.exact_matches[n].resume_skill = skill

\* the pairs of the partial pass: one normalized form is a substring of the
\* other and the resume skill has no Exact record in the category
PartialPairs(resume, jobs, category) ==
    {p \in Pairs(resume, jobs) :
        /\ \/ In(Norm(resume[p[1]]), Norm(jobs[p[2]]))
           \/ In(Norm(jobs[p[2]]), Norm(resume[p[1]]))
        /\ ~HasExactRecord(resume[p[1]], category)}

PartialPass(report) ==
    /\ OneRecordPerPair(report.required_skills.partial_matches, resume_skills,
                        RequiredOf(report),
                        PartialPairs(resume_skills, RequiredOf(report),
                                     report.required_skills),
                        "partial")
    /\ OneRecordPerPair(report.preferred_skills.partial_matches, resume_skills,
                        PreferredOf(report),
                        PartialPairs(resume_skills, PreferredOf(report),
                                     report.preferred_skills),
                        "partial")

\* C19 as stated: in each category of every returned report, a resume skill
\* without Exact record in the category has one Partial record for every job
\* skill of the category one of whose normalized forms is a substring of the
\* other, and a resume skill with an Exact record in the category has no
\* Partial record in it.
C19_PartialPassInEveryReport == Analysed => PartialPass(match_analysis)

\* C19 amended: the same in every report of the standard path; the demo
\* report has no Partial record.
C19_PartialPassInStandardReports ==
    Analysed =>
        IF IsDemoReport(match_analysis)
        THEN /\ match_analysis.required_skills.partial_matches = <<>>
             /\ match_analysis.preferred_skills.partial_matches = <<>>
        ELSE PartialPass(match_analysis)

\* C19 witness: a standard report in which a resume skill has an Exact record
\* in the required category, and a required job skill that contains it gets
\* no Partial record.
C19_Witness ==
    /\ Analysed
    /\ ~IsDemoReport(match_analysis)
    /\ \E i \in 1..Len(resume_skills) :
          /\ ~Blank(resume_skills[i])
          /\ HasExactRecord(resume_skills[i], match_analysis.required_skills)
          /\ \E j \in 1..Len(job_required_skills) :
                /\ Norm(resume_skills[i]) # Norm(job_required_skills[j])
                /\ In(Norm(resume_skills[i]), Norm(job_required_skills[j]))
          /\ match_analysis.required_skills.partial_matches = <<>>

ExactPass(report, required_hits, preferred_hits) ==
    /\ OneRecordPerPair(report.required_skills.exact_matches, resume_skills,
                        RequiredOf(report), required_hits, "exact")
    /\ OneRecordPerPair(report.preferred_skills.exact_matches, resume_skills,
                        PreferredOf(report), preferred_hits, "exact")

\* C20 as stated: in each category of every returned report, exact_matches
\* holds one record, with the raw resume and job strings, for every pair
\* (resume skill, job skill) whose trimmed, lower-cased forms are equal, and
\* no other record.
C20_ExactPassInEveryReport ==
    Analysed =>
        ExactPass(match_analysis,
                  ExactPairs(resume_skills, RequiredOf(match_analysis)),
                  ExactPairs(resume_skills, PreferredOf(match_analysis)))

\* C20 amended: the same in every report of the standard path; in the demo
\* report the pairs are those whose lower-cased, untrimmed forms are equal.
C20_ExactPassTrimsInStandardReports ==
    Analysed =>
        IF IsDemoReport(match_analysis)
        THEN ExactPass(match_analysis,
                       FoldedPairs(resume_skills, demo_required_skills),
                       FoldedPairs(resume_skills, demo_preferred_skills))
        ELSE ExactPass(match_analysis,
                       ExactPairs(resume_skills, job_required_skills),
                       ExactPairs(resume_skills, job_preferred_skills))

\* C20 witness: a standard report in which one resume skill has an Exact
\* record for each of two job entries, one of them differing from it in
\* case or padding.
C20_Witness ==
    /\ Analysed
    /\ ~IsDemoReport(match_analysis)
    /\ \E n, k \in 1..Len(match_analysis.required_skills.exact_matches) :
          LET a == match_analysis.required_skills.exact_matches[n]
              b == match_analysis.required_skills.exact_matches[k]
          IN  /\ n # k
              /\ Len(resume_skills) = 1
              /\ a.resume_skill # a.job_skill
              /\ b.job_skill # a.job_skill
              /\ ~Blank(a.resume_skill)

SameInputs(i, j) ==
    /\ resume_skills[i] = resume_skills[j]
    /\ job_required_skills[i] = job_required_skills[j]
    /\ job_preferred_skills[i] = job_preferred_skills[j]

\* C17: two calls of the engine with identical inputs return identical
\* MatchReports and RecommendationReports (and one raises iff the other
\* does), whatever calls the other invocation made before it came to the
\* same inputs.
C17_SameInputsSameReports ==
    \A i, j \in Invocations :
        SameInputs(i, j) =>
            /\ (pc[i] = "done" /\ pc[j] = "done") =>
                  recommendations[i] = recommendations[j]
            /\ (pc[i] = "analysed" /\ pc[j] = "analysed") =>
                  recommendations[i] = recommendations[j]
            /\ ~(pc[i] = "raised" /\ pc[j] \in {"analysed", "done"})

\* C17 witness: two invocations hold the results of calls with the same
\* lists, with exact and partial matches in them.
C17_Witness ==
    \E i, j \in Invocations :
        /\ i # j
        /\ SameInputs(i, j)
        /\ pc[i] = "done"
        /\ pc[j] = "done"
        /\ recommendations[i].match_analysis.required_skills.partial_matches # <<>>
        /\ recommendations[j].match_analysis.preferred_skills.exact_matches # <<>>

\* what invocation i returns when it runs alone on its own lists
AloneReport(i) ==
    analyze_skill_match(resume_skills[i], job_required_skills[i],
                        job_preferred_skills[i])

\* C18: under every interleaving of the invocations, each one ends as it
\* ends alone on its own inputs: the report analyze_skill_match returns to
\* it, the result its handler builds from it, and the error when it raises.
C18_EachInvocationAsAlone ==
    \A i \in Invocations :
        /\ pc[i] = "raised" => IsRaised(AloneReport(i))
        /\ pc[i] \in {"analysed", "done"} => ~IsRaised(AloneReport(i))
        /\ pc[i] = "analysed" =>
              recommendations[i] = [match_analysis |-> AloneReport(i)]
        /\ pc[i] = "done" =>
              recommendations[i] =
                 [match_analysis  |-> AloneReport(i),
                  recommendations |-> generate_recommendations(AloneReport(i))]

\* C18 witness: one invocation has its result, with an exact match, while
\* another one, on other lists, is between the passes of its own call.
C18_Witness ==
    \E i, j \in Invocations :
        /\ i # j
        /\ pc[i] = "done"
        /\ pc[j] \in {"exact", "partial"}
        /\ resume_skills[i] # resume_skills[j]
        /\ recommendations[i].match_analysis.required_skills.matched > 0
        /\ match_analysis[Frame(j)].matched_required # <<>>

\* the job skill is the job_skill, compared without case, of a record of the
\* category
Recorded(skill, category) ==
    \E m \in RecordsOf(category) : lower(m.job_skill) = lower(skill)

MissingOf(jobs, category) ==
    /\ category.missing = SelectSeq(jobs, LAMBDA skill : ~Recorded(skill, category))
    /\ \A n \in 1..Len(category.missing) :
          \A m \in RecordsOf(category) : m.job_skill # category.missing[n]

\* C21: in each category, missing is the subsequence of the category's job
\* list, in its order, of the job skills that are the job_skill (compared
\* without case) of no Exact and no Partial record; no job skill is both in
\* missing and the job_skill of a record.
C21_MissingIsUnrecordedJobSkills ==
    Analysed =>
        /\ MissingOf(RequiredOf(match_analysis), match_analysis.required_skills)
        /\ MissingOf(PreferredOf(match_analysis), match_analysis.preferred_skills)

\* C21 witness: a standard report whose required category has an Exact
\* record, a Partial record and a missing skill.
C21_Witness ==
    /\ Analysed
    /\ ~IsDemoReport(match_analysis)
    /\ match_analysis.required_skills.missing # <<>>
    /\ ~Blank(match_analysis.required_skills.missing[1])
    /\ \/ match_analysis.required_skills.exact_matches # <<>>
       \/ match_analysis.required_skills.partial_matches # <<>>
    /\ \A i \in 1..Len(resume_skills) : ~Blank(resume_skills[i])

\* C22: in each category, no resume skill is the resume_skill of both an
\* Exact record and a Partial record.
C22_NoSkillBothExactAndPartial ==
    Analysed =>
        \A c \in CategoriesOf(match_analysis) :
            \A n \in 1..Len(c.exact_matches), k \in 1..Len(c.partial_matches) :
                c.exact_matches[n].resume_skill # c.partial_matches[k].resume_skill

\* C22 witness: a category with an Exact record of one resume skill, which a
\* second job skill contains, and a Partial record of another resume skill.
C22_Witness ==
    /\ Analysed
    /\ \E c \in CategoriesOf(match_analysis) :
          /\ c.exact_matches # <<>>
          /\ c.partial_matches # <<>>
          /\ ~Blank(c.partial_matches[1].resume_skill)
          /\ ~Blank(c.partial_matches[1].job_skill)

\* the number of Exact records of the category with this resume_skill
ExactRecordsOf(skill, category) ==
    Cardinality({n \in 1..Len(category.exact_matches) :
                    category.exact_matches[n].resume_skill = skill})

Occurrences(skill, skills) ==
    Cardinality({i \in 1..Len(skills) : skills[i] = skill})

SameNormalized(skill, skills) ==
    Cardinality({j \in 1..Len(skills) : Norm(skills[j]) = Norm(skill)})

\* C23 as stated: in each category, a resume skill is the resume_skill of at
\* most one record of exact_matches.
C23_AtMostOneExactRecord ==
    Analysed =>
        \A c \in CategoriesOf(match_analysis) :
            \A i \in 1..Len(resume_skills) : ExactRecordsOf(resume_skills[i], c) <= 1

ExactRecordsBounded(jobs, category) ==
    \A i \in 1..Len(resume_skills) :
        ExactRecordsOf(resume_skills[i], category)
            <= Occurrences(resume_skills[i], resume_skills)
                 * SameNormalized(resume_skills[i], jobs)

\* C23 amended: in each category, a resume skill is the resume_skill of at
\* most one Exact record for each of its occurrences in the resume list and
\* each job entry of the category with its normalized form; so of at most one
\* when it occurs once and one job entry has its normalized form.
C23_AtMostOneExactRecordPerPair ==
    Analysed =>
        /\ ExactRecordsBounded(RequiredOf(match_analysis),
                               match_analysis.required_skills)
        /\ ExactRecordsBounded(PreferredOf(match_analysis),
                               match_analysis.preferred_skills)

\* C23 witness: a resume skill that occurs once has two Exact records in the
\* required category, for two job entries that differ in case or padding.
C23_Witness ==
    /\ Analysed
    /\ \E i \in 1..Len(resume_skills) :
          /\ ~Blank(resume_skills[i])
          /\ Occurrences(resume_skills[i], resume_skills) = 1
          /\ ExactRecordsOf(resume_skills[i], match_analysis.required_skills) = 2
    /\ job_required_skills[1] # job_required_skills[2]

\* pair p comes before pair q: earlier resume skill, or the same resume skill
\* and an earlier job skill
Precedes(p, q) == p[1] < q[1] \/ (p[1] = q[1] /\ p[2] < q[2])

\* records lists the pairs of hits in that order
InLoopOrder(records, resume, jobs, hits, match_type) ==
    /\ Len(records) = Cardinality(hits)
    /\ \A p \in hits :
          records[1 + Cardinality({q \in hits : Precedes(q, p)})]
              = RecordOf(resume, jobs, p, match_type)

\* C24: within exact_matches and within partial_matches of each category,
\* the records are in the order of their resume skill in the resume list and,
\* for the same resume skill, of their job skill in the job list.
C24_RecordsInLoopOrder ==
    Analysed =>
        LET required  == RequiredOf(match_analysis)
            preferred == PreferredOf(match_analysis)
            demo      == IsDemoReport(match_analysis)
        IN  /\ InLoopOrder(match_analysis.required_skills.exact_matches,
                           resume_skills, required,
                           IF demo THEN FoldedPairs(resume_skills, required)
                                   ELSE ExactPairs(resume_skills, required),
                           "exact")
            /\ InLoopOrder(match_analysis.preferred_skills.exact_matches,
                           resume_skills, preferred,
                           IF demo THEN FoldedPairs(resume_skills, preferred)
                                   ELSE ExactPairs(resume_skills, preferred),
                           "exact")
            /\ InLoopOrder(match_analysis.required_skills.partial_matches,
                           resume_skills, required,
                           IF demo THEN {}
                           ELSE PartialPairs(resume_skills, required,
                                             match_analysis.required_skills),
                           "partial")
            /\ InLoopOrder(match_analysis.preferred_skills.partial_matches,
                           resume_skills, preferred,
                           IF demo THEN {}
                           ELSE PartialPairs(resume_skills, preferred,
                                             match_analysis.preferred_skills),
                           "partial")

\* C24 witness: Partial records of two resume skills in the required
\* category, the first resume skill matched with two job entries and the
\* second with the first job entry again.
C24_Witness ==
    /\ Analysed
    /\ Len(resume_skills) = 2
    /\ Len(job_required_skills) = 2
    /\ Len(match_analysis.required_skills.partial_matches) = 3
    /\ match_analysis.required_skills.partial_matches[2].resume_skill = resume_skills[1]
    /\ match_analysis.required_skills.partial_matches[2].job_skill = job_required_skills[2]
    /\ match_analysis.required_skills.partial_matches[3].resume_skill = resume_skills[2]
    /\ match_analysis.required_skills.partial_matches[3].job_skill = job_required_skills[1]

inputs == <<resume_skills, job_required_skills, job_preferred_skills>>

\* C25: analyze_skill_match leaves the three input lists as they are and
\* returns a report whose resume_skills is the caller's resume list;
\* generate_recommendations leaves the lists and the report it is given,
\* missing lists included, as they are.
C25_InputsAndReportUnchanged ==
    [][ /\ pc = "called" =>
             /\ inputs' = inputs
             /\ pc' = "analysed" => match_analysis'.resume_skills = resume_skills
        /\ pc = "analysed" =>
             /\ inputs' = inputs
             /\ match_analysis' = match_analysis ]_vars

\* C25 witness: recommendations made from a report with more than five
\* missing required skills, for a non-empty resume.
C25_Witness ==
    /\ pc = "done"
    /\ Len(resume_skills) > 0
    /\ Len(match_analysis.required_skills.missing) > 5
    /\ Len(recommendations.priority_skills) = 5

\* the report invocation i has received
ReportOf(i) == recommendations[i].match_analysis

Returned(i) == pc[i] \in {"analysed", "done"}

\* C26: of two calls that do not take the demo fallback, with the same resume
\* list, those with the same required list have the same required_skills
\* CategoryResult whatever their preferred lists are, and those with the same
\* preferred list have the same preferred_skills CategoryResult whatever
\* their required lists are.
C26_CategoriesIndependent ==
    \A i, j \in Invocations :
        ( /\ Returned(i) /\ ~IsDemoReport(ReportOf(i))
          /\ Returned(j) /\ ~IsDemoReport(ReportOf(j))
          /\ resume_skills[i] = resume_skills[j] ) =>
            /\ job_required_skills[i] = job_required_skills[j] =>
                 ReportOf(i).required_skills = ReportOf(j).required_skills
            /\ job_preferred_skills[i] = job_preferred_skills[j] =>
                 ReportOf(i).preferred_skills = ReportOf(j).preferred_skills

\* C26 witness: two returned calls with the same resume and required lists
\* and different preferred lists, the one with a resume skill matched
\* exactly in the preferred category that both match partially in the
\* required one.
C26_Witness ==
    \E i, j \in Invocations :
        /\ Returned(i)
        /\ Returned(j)
        /\ resume_skills[i] = resume_skills[j]
        /\ job_required_skills[i] = job_required_skills[j]
        /\ job_preferred_skills[i] # job_preferred_skills[j]
        /\ ReportOf(i).preferred_skills # ReportOf(j).preferred_skills
        /\ \E n \in 1..Len(ReportOf(i).required_skills.partial_matches),
              k \in 1..Len(ReportOf(i).preferred_skills.exact_matches) :
              ReportOf(i).required_skills.partial_matches[n].resume_skill
                 = ReportOf(i).preferred_skills.exact_matches[k].resume_skill

\* C27: when the required list is empty and the preferred list is not, the
\* overall percentage is 0.3 times the preferred percentage (both as
\* reported, to one decimal); a resume that matches every preferred skill
\* once gets 30.0 and weak_match.
C27_EmptyRequiredGivesThreeTenths ==
    (Analysed /\ Len(job_required_skills) = 0 /\ Len(job_preferred_skills) > 0) =>
        LET overall   == match_analysis.overall_match_percentage
            preferred == match_analysis.preferred_skills
        IN  /\ Abs(10 * overall - 3 * preferred.match_percentage) <= 6
            /\ preferred.matched = preferred.total =>
                 /\ overall = 300
                 /\ match_analysis.analysis_summary.weak_match
                 /\ TrueFlags(match_analysis) = {"weak_match"}

\* C27 witness: every preferred skill matched once, no required skill.
C27_Witness ==
    /\ Analysed
    /\ Len(job_required_skills) = 0
    /\ Len(job_preferred_skills) = 2
    /\ match_analysis.preferred_skills.matched = 2
    /\ match_analysis.preferred_skills.missing = <<>>
    /\ match_analysis.overall_match_percentage = 300

(***************************************************************************)
(* /chat (main.py, chat_with_resume): the requests of one chat session,    *)
(* which exists.  Each request has its own database session (db.py,        *)
(* get_db: autoflush off), so its queries see the committed rows only.     *)
(***************************************************************************)
Requests == 1..NumRequests

match_vars == <<resume_skills, job_required_skills, job_preferred_skills,
                match_analysis, recommendations>>

\* no skill match is in progress
NoMatch ==
    /\ resume_skills = <<>>
    /\ job_required_skills = <<>>
    /\ job_preferred_skills = <<>>
    /\ match_analysis = None
    /\ recommendations = None

\* models.py 36-44: the columns of a row that the handler sets; no unique
\* constraint on (session_id, message_order)
ChatMessage(role, content, message_order) ==
    [role |-> role, content |-> content, message_order |-> message_order]

\* main.py 155-158: the message_order of the first row by descending
\* message_order, plus one, or 1 when the session has no row
NextOrder(rows) ==
    IF Len(rows) = 0 THEN 1
    ELSE (CHOOSE n \in {rows[k].message_order : k \in 1..Len(rows)} :
             \A k \in 1..Len(rows) : rows[k].message_order <= n) + 1

InitChat ==
    /\ pc = [r \in Requests |-> "idle"]
    /\ chat_messages = <<>>
    /\ db = [r \in Requests |-> <<>>]
    /\ next_order = [r \in Requests |-> None]
    /\ response = [r \in Requests |-> None]
    /\ NoMatch
    /\ NoJobs

\* the requests that wait for get_chat_response
Awaiting == {r \in Requests : pc[r] = "awaiting"}

\* main.py 154-181: read the last order, add the user message to the
\* session, then wait for the response (content: the request's message)
StoreUserMessage(r) ==
    /\ pc[r] = "idle"
    /\ Len(chat_messages) + 2 * Cardinality(Awaiting) + 2 <= MaxStored
    /\ next_order' = [next_order EXCEPT ![r] = NextOrder(chat_messages)]
    /\ db' = [db EXCEPT ![r] = <<ChatMessage("user", r, NextOrder(chat_messages))>>]
    /\ pc' = [pc EXCEPT ![r] = "awaiting"]
    /\ UNCHANGED <<chat_messages, response, match_vars, job_vars>>

\* main.py 183-203: the response has come; add the assistant message at
\* next_order + 1, commit both rows and return the message count
StoreAssistantMessage(r) ==
    /\ pc[r] = "awaiting"
    /\ chat_messages' =
         chat_messages \o db[r] \o <<ChatMessage("assistant", r, next_order[r] + 1)>>
    /\ db' = [db EXCEPT ![r] = <<>>]
    /\ response' = [response EXCEPT ![r] =
                        [status_code |-> 200, message_count |-> next_order[r] + 1]]
    /\ next_order' = [next_order EXCEPT ![r] = None]
    /\ pc' = [pc EXCEPT ![r] = "idle"]
    /\ UNCHANGED <<match_vars, job_vars>>

\* main.py 205-207: get_chat_response has raised; db.rollback() drops the
\* user message and the response is an error
Rollback(r) ==
    /\ pc[r] = "awaiting"
    /\ db' = [db EXCEPT ![r] = <<>>]
    /\ response' = [response EXCEPT ![r] = [status_code |-> 500]]
    /\ next_order' = [next_order EXCEPT ![r] = None]
    /\ pc' = [pc EXCEPT ![r] = "idle"]
    /\ UNCHANGED <<chat_messages, match_vars, job_vars>>

NextChat ==
    \E r \in Requests :
        \/ StoreUserMessage(r)
        \/ StoreAssistantMessage(r)
        \/ Rollback(r)

SpecChat == InitChat /\ [][NextChat]_vars

Analyses == 1..NumAnalyses

\* job_data of a parsed job description: its two skill lists
JobData ==
    { [required_skills |-> <<java>>, preferred_skills |-> <<git>>],
      [required_skills |-> <<>>, preferred_skills |-> <<>>] }

\* job_analysis.py 386-413: what process_job_description returns, or that it
\* raises
ProcessOutcomes ==
    {[success |-> TRUE, job_data |-> job_data] : job_data \in JobData}
      \cup {[success |-> FALSE, error |-> "Could not extract text from PDF file"]}
      \cup {[raised |-> "Exception"]}

\* main.py 514-535: the entry the task writes for an outcome
FinalEntry(result) ==
    IF "raised" \in DOMAIN result
      THEN [status |-> "error", progress |-> 0, error |-> result.raised]
    ELSE IF result.success
      THEN [status |-> "completed", progress |-> 100, result |-> result]
    ELSE [status |-> "error", progress |-> 0, error |-> result.error]

\* the parsed data of the resume row the handler finds; None: no such row
StoredResumes == {None, [skills |-> <<java>>], [skills |-> <<javascript, git>>]}

InitJobs ==
    /\ pc = [id \in Analyses |-> "none"]
    /\ job_analysis_results = <<>>
    /\ job_text = <<>>
    /\ response = None
    /\ NoMatch
    /\ NoChat

\* main.py 329-348: the file name is checked, a new id gets its entry, and
\* the handler waits for file.read()
UploadJobDescription(id) ==
    /\ pc[id] = "none"
    /\ id \notin DOMAIN job_analysis_results
    /\ \E pdf \in BOOLEAN :
         IF pdf
           THEN /\ job_analysis_results' =
                     (id :> [status |-> "processing", progress |-> 0])
                         @@ job_analysis_results
                /\ pc' = [pc EXCEPT ![id] = "reading"]
                /\ UNCHANGED response
           ELSE /\ response' = [route |-> "/upload-job-description",
                                status_code |-> 400]
                /\ UNCHANGED <<pc, job_analysis_results>>
    /\ UNCHANGED <<job_text, match_vars, chat_vars>>

\* main.py 351-365: the content is read, the task is added and the handler
\* returns
AddTask(id) ==
    /\ pc[id] = "reading"
    /\ pc' = [pc EXCEPT ![id] = "queued"]
    /\ response' = [route |-> "/upload-job-description", status_code |-> 200,
                    analysis_id |-> id, body |-> [status |-> "processing"]]
    /\ UNCHANGED <<job_vars, match_vars, chat_vars>>

\* main.py 508-512: the task writes progress 25 and waits for
\* process_job_description
StartTask(id) ==
    /\ pc[id] = "queued"
    /\ job_analysis_results' =
         [job_analysis_results EXCEPT ![id] = [status |-> "processing", progress |-> 25]]
    /\ pc' = [pc EXCEPT ![id] = "started"]
    /\ UNCHANGED <<job_text, response, match_vars, chat_vars>>

\* mutant: without the except clause, an exception leaves the entry as it is
FinishTask_Uncaught(id) ==
    /\ pc[id] = "started"
    /\ \E result \in ProcessOutcomes :
         job_analysis_results' =
           IF "raised" \in DOMAIN result THEN job_analysis_results
           ELSE [job_analysis_results EXCEPT ![id] = FinalEntry(result)]
    /\ pc' = [pc EXCEPT ![id] = "finished"]
    /\ UNCHANGED <<job_text, response, match_vars, chat_vars>>

\* main.py 512-535: process_job_description has returned or raised, and the
\* task writes the last entry
FinishTask(id) ==
    /\ pc[id] = "started"
    /\ \E result \in ProcessOutcomes :
         job_analysis_results' =
           [job_analysis_results EXCEPT ![id] = FinalEntry(result)]
    /\ pc' = [pc EXCEPT ![id] = "finished"]
    /\ UNCHANGED <<job_text, response, match_vars, chat_vars>>

\* main.py 376-448: POST /analyze-skills/{resume_job_id}/{analysis_id}
AnalyzeSkillsMatchResponse(resume, analysis_id) ==
    IF resume = None
      THEN [route |-> "/analyze-skills", analysis_id |-> analysis_id,
            status_code |-> 404, detail |-> "Resume not found"]
    ELSE IF analysis_id \notin DOMAIN job_analysis_results
      THEN [route |-> "/analyze-skills", analysis_id |-> analysis_id,
            status_code |-> 404, detail |-> "Job analysis not found"]
    ELSE IF job_analysis_results[analysis_id].status # "completed"
      THEN [route |-> "/analyze-skills", analysis_id |-> analysis_id,
            status_code |-> 400, detail |-> "Job analysis not completed yet"]
    ELSE LET job_data == job_analysis_results[analysis_id].result.job_data
             analysis == analyze_skill_match(resume.skills,
                                             job_data.required_skills,
                                             job_data.preferred_skills)
         IN  [route |-> "/analyze-skills", analysis_id |-> analysis_id,
              status_code |-> 200,
              body |-> [job_info |->
                           [analysis_id |-> analysis_id,
                            required_skills |-> job_data.required_skills,
                            preferred_skills |-> job_data.preferred_skills],
                        match_analysis |-> analysis,
                        recommendations |-> generate_recommendations(analysis)]]

AnalyzeSkillsMatch(id) ==
    /\ \E resume \in StoredResumes :
         response' = AnalyzeSkillsMatchResponse(resume, id)
    /\ UNCHANGED <<pc, job_vars, match_vars, chat_vars>>

\* main.py 450-461: GET /job-description/{analysis_id}
GetJobDescription(id) ==
    /\ response' =
         IF id \notin DOMAIN job_analysis_results
           THEN [route |-> "/job-description", analysis_id |-> id,
                 status_code |-> 404, detail |-> "Job analysis not found"]
         ELSE IF job_analysis_results[id].status # "completed"
           THEN [route |-> "/job-description", analysis_id |-> id,
                 status_code |-> 400, detail |-> "Job analysis not completed yet"]
         ELSE [route |-> "/job-description", analysis_id |-> id,
               status_code |-> 200, body |-> job_analysis_results[id].result]
    /\ UNCHANGED <<pc, job_vars, match_vars, chat_vars>>

NextJobs ==
    \E id \in Analyses :
        \/ UploadJobDescription(id)
        \/ AddTask(id)
        \/ StartTask(id)
        \/ FinishTask(id)
        \/ AnalyzeSkillsMatch(id)
        \/ GetJobDescription(id)

\* The handler that has created an entry goes on to add the task, and
\* BackgroundTasks runs every task that was added, after the response; the
\* awaited calls return or raise.
SpecJobs ==
    /\ InitJobs
    /\ [][NextJobs]_vars
    /\ \A id \in Analyses :
         /\ WF_vars(AddTask(id))
         /\ WF_vars(StartTask(id))
         /\ WF_vars(FinishTask(id))

\* the entry of an analysis has its last status
Settled(id) ==
    /\ id \in DOMAIN job_analysis_results
    /\ job_analysis_results[id].status \in {"completed", "error"}

\* a step in which a reading handler answers 200
Read200 ==
    /\ response' # response
    /\ response'.route \in {"/analyze-skills", "/job-description"}
    /\ response'.status_code = 200

\* C29: the entry of every analysis id starts as processing; it eventually
\* becomes completed or error; once completed or error it never changes; a
\* completed entry carries a result; and /analyze-skills and
\* /job-description answer with a result only from a completed entry, whose
\* result it is.
C29_StatusLifecycle ==
    /\ [][\A id \in Analyses :
            (id \notin DOMAIN job_analysis_results
                /\ id \in DOMAIN job_analysis_results') =>
              job_analysis_results'[id].status = "processing"]_vars
    /\ \A id \in Analyses :
         (id \in DOMAIN job_analysis_results) ~> Settled(id)
    /\ [][\A id \in Analyses :
            Settled(id) =>
              /\ id \in DOMAIN job_analysis_results'
              /\ job_analysis_results'[id] = job_analysis_results[id]]_vars
    /\ [](\A id \in DOMAIN job_analysis_results :
            job_analysis_results[id].status = "completed" =>
              "result" \in DOMAIN job_analysis_results[id])
    /\ [][Read200 =>
            LET id == response'.analysis_id
            IN  /\ Settled(id)
                /\ job_analysis_results[id].status = "completed"
                /\ response'.route = "/job-description" =>
                     response'.body = job_analysis_results[id].result
                /\ response'.route = "/analyze-skills" =>
                     /\ response'.body.job_info.required_skills =
                          job_analysis_results[id].result.job_data.required_skills
                     /\ response'.body.job_info.preferred_skills =
                          job_analysis_results[id].result.job_data.preferred_skills]_vars

\* C29 witness: one analysis has ended as completed and a handler has read
\* its result, the other one has ended as error and was refused.
C29_Witness ==
    \E id, other \in Analyses :
        /\ Settled(id)
        /\ job_analysis_results[id].status = "completed"
        /\ Settled(other)
        /\ job_analysis_results[other].status = "error"
        /\ response # None
        /\ response.route = "/analyze-skills"
        /\ response.status_code = 200
        /\ response.analysis_id = id

(***************************************************************************)
(* generate_mock_job_analysis (job_analysis.py 121-199): the two skill     *)
(* lists of the analysis returned when the job text is not parsed by       *)
(* OpenAI, and a skill match computed from them.                           *)
(***************************************************************************)
\* job_analysis.py 150-162, in the order of the dict: keyword, skill name
skill_keywords ==
    <<
       <<<<"p","y","t","h","o","n">>,
         <<"P","y","t","h","o","n">>>>,
       <<<<"j","a","v","a","s","c","r","i","p","t">>,
         <<"J","a","v","a","S","c","r","i","p","t">>>>,
       <<<<"j","a","v","a">>,
         <<"J","a","v","a">>>>,
       <<<<"r","e","a","c","t">>,
         <<"R","e","a","c","t">>>>,
       <<<<"a","n","g","u","l","a","r">>,
         <<"A","n","g","u","l","a","r">>>>,
       <<<<"v","u","e">>,
         <<"V","u","e",".","j","s">>>>,
       <<<<"n","o","d","e">>,
         <<"N","o","d","e",".","j","s">>>>,
       <<<<"e","x","p","r","e","s","s">>,
         <<"E","x","p","r","e","s","s",".","j","s">>>>,
       <<<<"d","j","a","n","g","o">>,
         <<"D","j","a","n","g","o">>>>,
       <<<<"f","l","a","s","k">>,
         <<"F","l","a","s","k">>>>,
       <<<<"s","q","l">>,
         <<"S","Q","L">>>>,
       <<<<"p","o","s","t","g","r","e","s","q","l">>,
         <<"P","o","s","t","g","r","e","S","Q","L">>>>,
       <<<<"m","y","s","q","l">>,
         <<"M","y","S","Q","L">>>>,
       <<<<"m","o","n","g","o","d","b">>,
         <<"M","o","n","g","o","D","B">>>>,
       <<<<"r","e","d","i","s">>,
         <<"R","e","d","i","s">>>>,
       <<<<"d","o","c","k","e","r">>,
         <<"D","o","c","k","e","r">>>>,
       <<<<"k","u","b","e","r","n","e","t","e","s">>,
         <<"K","u","b","e","r","n","e","t","e","s">>>>,
       <<<<"a","w","s">>,
         <<"A","W","S">>>>,
       <<<<"a","z","u","r","e">>,
         <<"A","z","u","r","e">>>>,
       <<<<"g","c","p">>,
         <<"G","o","o","g","l","e"," ","C","l","o","u","d">>>>,
       <<<<"g","i","t">>,
         <<"G","i","t">>>>,
       <<<<"c","i","/","c","d">>,
         <<"C","I","/","C","D">>>>,
       <<<<"j","e","n","k","i","n","s">>,
         <<"J","e","n","k","i","n","s">>>>,
       <<<<"t","e","r","r","a","f","o","r","m">>,
         <<"T","e","r","r","a","f","o","r","m">>>>,
       <<<<"t","y","p","e","s","c","r","i","p","t">>,
         <<"T","y","p","e","S","c","r","i","p","t">>>>,
       <<<<"h","t","m","l">>,
         <<"H","T","M","L">>>>,
       <<<<"c","s","s">>,
         <<"C","S","S">>>>,
       <<<<"s","a","s","s">>,
         <<"S","A","S","S">>>>,
       <<<<"w","e","b","p","a","c","k">>,
         <<"W","e","b","p","a","c","k">>>>,
       <<<<"b","a","b","e","l">>,
         <<"B","a","b","e","l">>>>,
       <<<<"r","e","s","t">>,
         <<"R","E","S","T"," ","A","P","I","s">>>>,
       <<<<"g","r","a","p","h","q","l">>,
         <<"G","r","a","p","h","Q","L">>>>,
       <<<<"m","i","c","r","o","s","e","r","v","i","c","e","s">>,
         <<"M","i","c","r","o","s","e","r","v","i","c","e","s">>>>
    >>

\* job_analysis.py 164-167: the names of the keywords found in the text,
\* by the substring test, in the order of the dict
detected_skills(text_lower) ==
    LET Found(entry) == In(entry[1], text_lower)
        found == SelectSeq(skill_keywords, Found)
    IN  [k \in 1..Len(found) |-> found[k][2]]

\* job_analysis.py 171
default_skills ==
    << <<"J","a","v","a","S","c","r","i","p","t">>, 
       <<"P","y","t","h","o","n">>, 
       <<"R","e","a","c","t">>, 
       <<"N","o","d","e",".","j","s">>, 
       <<"S","Q","L">>, 
       <<"G","i","t">> >>

\* job_analysis.py 176
default_preferred_skills == << <<"D","o","c","k","e","r">>, <<"A","W","S">>, <<"T","y","p","e","S","c","r","i","p","t">> >>

\* mutant: the lists are the two halves of what was detected, with no
\* default
generate_mock_job_analysis_Halves(text) ==
    LET detected == detected_skills(lower(text))
        mid_point == Len(detected) \div 2
    IN  [required_skills  |-> SubSeq(detected, 1, mid_point),
         preferred_skills |-> SubSeq(detected, mid_point + 1, Len(detected))]

\* job_analysis.py 128, 164-182: required_skills and preferred_skills of the
\* returned analysis
generate_mock_job_analysis(text) ==
    LET found == detected_skills(lower(text))
        detected == IF Len(found) = 0 THEN default_skills ELSE found
        mid_point == Len(detected) \div 2
    IN  [required_skills  |->
            IF mid_point > 0 THEN SubSeq(detected, 1, mid_point)
            ELSE SubSeq(detected, 1, Min(3, Len(detected))),
         preferred_skills |->
            IF mid_point > 0 THEN SubSeq(detected, mid_point + 1, Len(detected))
            ELSE default_preferred_skills]

\* words of job texts: with one keyword, with two that overlap
\* ("javascript", "java"; "postgresql", "sql"), with a keyword inside
\* another word ("rest" in "interested"), and with none
Words ==
    << <<"P","y","t","h","o","n">>,
       <<"J","a","v","a","S","c","r","i","p","t">>,
       <<"P","o","s","t","g","r","e","S","Q","L">>,
       <<"i","n","t","e","r","e","s","t","e","d">>,
       <<"e","n","g","i","n","e","e","r">> >>

RECURSIVE JoinWords(_)
\* " ".join(words)
JoinWords(words) ==
    IF Len(words) = 0 THEN <<>>
    ELSE IF Len(words) = 1 THEN words[1]
    ELSE words[1] \o <<" ">> \o JoinWords(Tail(words))

\* the job texts of at most MaxWords words, the empty text among them
JobTexts ==
    UNION { {JoinWords([k \in 1..n |-> Words[pick[k]]]) :
                pick \in [1..n -> 1..Len(Words)]} : n \in 0..MaxWords }

\* resume skills to match with a mock analysis
MockResumes ==
    { <<>>,
      << <<"p","y","t","h","o","n">> >>,
      << <<"J","a","v","a","S","c","r","i","p","t">>, <<"D","o","c","k","e","r">> >> }

\* main.py 401-419 for an entry whose job_data is a mock analysis (job_analysis.py
\* 56, 103, 116, 119): the handler has its three lists
CallMock ==
    /\ pc = "idle"
    /\ \E text \in JobTexts, resume \in MockResumes :
         /\ job_text' = text
         /\ LET job_data == generate_mock_job_analysis(text)
            IN  Call(resume, job_data.required_skills, job_data.preferred_skills)

NextMock ==
    \/ CallMock
    \/ AnalyzeSkillMatch
    \/ GenerateRecommendations
    \/ Return

SpecMock == Init /\ [][NextMock]_vars

\* C30: generate_mock_job_analysis returns a non-empty required_skills list
\* and a non-empty preferred_skills list for every job text, also when no
\* keyword or exactly one keyword is detected; hence the skill match computed
\* from a mock analysis does not take the demo fallback.
C30_MockListsNonEmpty ==
    /\ pc # "idle" =>
         /\ Len(job_required_skills) > 0
         /\ Len(job_preferred_skills) > 0
         /\ ~DemoTriggered(job_required_skills, job_preferred_skills)
    /\ pc # "raised"
    /\ Analysed => ~IsDemoReport(match_analysis)

\* C30 witness: a match was computed from the mock analysis of a text with
\* exactly one keyword, whose preferred list is the default one.
C30_Witness ==
    /\ Analysed
    /\ Len(detected_skills(lower(job_text))) = 1
    /\ Len(job_required_skills) = 1
    /\ job_preferred_skills = default_preferred_skills
    /\ ~IsDemoReport(match_analysis)

\* a match was computed from the mock analysis of a text without keyword
C30_WitnessNoKeyword ==
    /\ Analysed
    /\ Len(detected_skills(lower(job_text))) = 0
    /\ job_required_skills \o job_preferred_skills = default_skills
    /\ ~IsDemoReport(match_analysis)
=============================================================================
